---- MODULE Spec2Model ----
(***************************************************************************)
(* Model of classifier.c: the Coordinator (main) that creates one pipe and *)
(* one child per worker, distributes the test set, waits for the children  *)
(* and sums their results, together with the children it forks.            *)
(***************************************************************************)
EXTENDS Integers, Sequences, FiniteSets, TLC

\* ---------------------------------------------------------------- bounds
MaxProcs == 2         \* largest -p of the full runs
MaxTest == 3          \* largest test set of the full runs
MaxPartProcs == 5     \* largest -p of the distribution-only runs
MaxPartTest == 8      \* largest test set of the distribution-only runs
MaxCfgProcs == 1      \* largest -p of the runs that start at the command line
MaxCfgTest == 1       \* largest test set of those runs
MaxTrain == 1         \* largest training set of those runs

\* ------------------------------------------------------------- constants
Parent == -1          \* process id of the Coordinator in the model
StaleSrc == -2        \* num_correct still holds the previous read's value
UninitSrc == -3       \* num_correct was never assigned
RD == 0               \* index of the read end in fds[i]
WR == 1               \* index of the write end in fds[i]

MaxWorkers == IF MaxPartProcs > MaxProcs THEN MaxPartProcs ELSE MaxProcs
Procs == 0 .. (MaxWorkers - 1)
GarbageVals == {-1, 0, 7}   \* what an uninitialised int may hold

VARIABLES
    verbose,        \* -v given
    lineBuffered,   \* stdout is a terminal (line buffered) or not (fully buffered)
    num_procs,      \* -p value
    num_items,      \* testing->num_items
    correctSet,     \* test indices the classifier labels correctly
    cpc,            \* Coordinator's position in main
    i,              \* loop index of the Coordinator's current loop
    N, cur_start,   \* distribution loop locals
    total_correct,  \* running total
    num_correct,    \* [init, val, src]: the int the result is read into
    exitCode,       \* exit status of the Coordinator, -1 while running
    pipes,          \* pipes[p]: the ints in flight in pipe p, each with its writer
    fdOpen,         \* set of <<process, pipe, end>>: open descriptors
    wpc,            \* wpc[w]: position of child w
    wstatus,        \* wstatus[w]: how child w terminated
    wstart, wcount, \* assignment child w has read
    outbuf,         \* outbuf[process]: stdio buffer of stdout
    stdout,         \* what has reached the primary output stream
    sent,           \* sent[w]: ints the Coordinator wrote to pipe w
    wrote,          \* wrote[w]: ints child w wrote to pipe w
    added,          \* added: per collected worker, the value added to the total
    argV,           \* argv: -v is present
    argK, argD, argP, \* argv: the text after -K, -d, -p, or NoArg
    badOption,      \* argv: holds an option getopt does not know
    nPositional,    \* argv: number of arguments after the options
    K,              \* K of kNN
    dist_metric,    \* the metric name, a string
    d_func,         \* the distance function selected
    num_train,      \* training->num_items
    dimMatch,       \* both datasets have the same feature dimension
    loaded          \* the load_dataset calls made so far, each with its outcome

vars == <<verbose, lineBuffered, num_procs, num_items, correctSet, cpc, i, N,
          cur_start, total_correct, num_correct, exitCode, pipes, fdOpen, wpc,
          wstatus, wstart, wcount, outbuf, stdout, sent, wrote, added, argV, argK,
          argD, argP, badOption, nPositional, K, dist_metric, d_func, num_train,
          dimMatch, loaded>>

argvVars == <<argV, argK, argD, argP, badOption, nPositional>>
configVars == <<K, dist_metric, d_func, num_train, dimMatch, loaded>>
inputVars == <<verbose, lineBuffered, num_procs, num_items, correctSet, argvVars,
               configVars>>
coordLocals == <<i, N, cur_start, total_correct, num_correct>>
workerVars == <<wpc, wstatus, wstart, wcount, wrote>>

AllProcs == {Parent} \cup Procs

\* the division truncated instead of rounded up
CeilDivFloor(n, p) == n \div p

\* one more than the quotient, whether or not there is a remainder
CeilDivPlusOne(n, p) == (n \div p) + 1

\* ceil((num_items / 1.0) / num_procs) converted to int
CeilDiv(n, p) == (n + p - 1) \div p

\* number of correctly classified items in [start, start + count)
CountCorrect(start, count) ==
    Cardinality({k \in correctSet : k >= start /\ k < start + count})

\* ---------------------------------------------------------------- strings
\* a C string is the sequence of its characters; past its end it reads as NUL
NUL == "NUL"
NoArg == <<"NOARG">>      \* the option is not on the command line
Euclidean == <<"e", "u", "c", "l", "i", "d", "e", "a", "n">>
Cosine == <<"c", "o", "s", "i", "n", "e">>
Strlen(s) == Len(s)
CharAt(s, k) == IF k <= Len(s) THEN s[k] ELSE NUL

\* strncmp(a, b, n) == 0: the first n characters agree, or both end before that
RECURSIVE StrncmpFrom(_, _, _, _)
StrncmpFrom(a, b, n, k) ==
    IF k > n THEN TRUE
    ELSE IF CharAt(a, k) # CharAt(b, k) THEN FALSE
    ELSE IF CharAt(a, k) = NUL THEN TRUE
    ELSE StrncmpFrom(a, b, n, k + 1)
\* the whole strings are compared
StrncmpWhole(a, b, n) == a = b

StrncmpIsZero(a, b, n) == StrncmpFrom(a, b, n, 1)

Digits == <<"0", "1", "2", "3", "4", "5", "6", "7", "8", "9">>
IsDigit(c) == \E d \in 1 .. 10 : Digits[d] = c
DigitVal(c) == (CHOOSE d \in 1 .. 10 : Digits[d] = c) - 1
Numeral(n) == <<Digits[n + 1]>>         \* the text of a one-digit number

\* atoi: an optional sign, then digits up to the first other character
RECURSIVE AtoiFrom(_, _, _)
AtoiFrom(s, k, acc) ==
    IF IsDigit(CharAt(s, k)) THEN AtoiFrom(s, k + 1, acc * 10 + DigitVal(CharAt(s, k)))
    ELSE acc
Atoi(s) ==
    IF CharAt(s, 1) = "-" THEN 0 - AtoiFrom(s, 2, 0)
    ELSE IF CharAt(s, 1) = "+" THEN AtoiFrom(s, 2, 0)
    ELSE AtoiFrom(s, 1, 0)

\* a call of load_dataset: it returned a dataset ("ok"), returned NULL ("null")
\* or did not return ("crash")
Load(file, result) == [file |-> file, result |-> result]

\* the command line and configuration of a run started as
\*   classifier [-v] -p <num_procs> training testing
\* once both datasets are loaded
LoadedDefaults ==
    /\ argV = verbose
    /\ argK = NoArg
    /\ argD = NoArg
    /\ argP = Numeral(num_procs)
    /\ badOption = FALSE
    /\ nPositional = 2
    /\ K = 1
    /\ dist_metric = Euclidean
    /\ d_func = "distance_euclidean"
    /\ num_train = 1
    /\ dimMatch = TRUE
    /\ loaded = <<Load("training", "ok"), Load("testing", "ok")>>

Init ==
    /\ verbose \in BOOLEAN
    /\ lineBuffered \in BOOLEAN
    /\ num_procs \in 1 .. MaxProcs
    /\ num_items \in 0 .. MaxTest
    /\ correctSet \in SUBSET (0 .. (num_items - 1))
    /\ cpc = "print_creating"
    /\ i = 0
    /\ N = 0
    /\ cur_start = 0
    /\ total_correct = 0
    /\ num_correct = [init |-> FALSE, val |-> 0, src |-> UninitSrc]
    /\ exitCode = -1
    /\ pipes = [p \in Procs |-> <<>>]
    /\ fdOpen = {}
    /\ wpc = [w \in Procs |-> "unborn"]
    /\ wstatus = [w \in Procs |-> "none"]
    /\ wstart = [w \in Procs |-> 0]
    /\ wcount = [w \in Procs |-> 0]
    /\ outbuf = [q \in AllProcs |-> <<>>]
    /\ stdout = <<>>
    /\ sent = [w \in Procs |-> <<>>]
    /\ wrote = [w \in Procs |-> <<>>]
    /\ added = <<>>
    /\ LoadedDefaults


\* ------------------------------------------------------------ stdio, exit
Item(kind, val) == [kind |-> kind, val |-> val]

\* printf(...) of one line to stdout by the Coordinator
Printf(item) ==
    IF lineBuffered
    THEN /\ stdout' = stdout \o outbuf[Parent] \o <<item>>
         /\ outbuf' = [outbuf EXCEPT ![Parent] = <<>>]
    ELSE /\ stdout' = stdout
         /\ outbuf' = [outbuf EXCEPT ![Parent] = Append(@, item)]

\* descriptors left once process q has gone
FdsWithout(q) == {fd \in fdOpen : fd[1] # q}

\* exit(code) / return code of the Coordinator: stdio is flushed, fds closed
CoordExit(code) ==
    /\ cpc' = "exited"
    /\ exitCode' = code
    /\ stdout' = stdout \o outbuf[Parent]
    /\ outbuf' = [outbuf EXCEPT ![Parent] = <<>>]
    /\ fdOpen' = FdsWithout(Parent)

\* ------------------------------------------------------------ Coordinator
\* if(verbose) printf("- Creating children ...\n");
PrintCreating ==
    /\ cpc = "print_creating"
    /\ IF verbose THEN Printf(Item("creating", 0))
                  ELSE UNCHANGED <<stdout, outbuf>>
    /\ cpc' = "declare_fds"
    /\ UNCHANGED <<inputVars, coordLocals, exitCode, pipes, fdOpen, workerVars,
                   sent, added>>

\* the process is ended by a signal: nothing is flushed, descriptors close
CoordCrash ==
    /\ cpc' = "exited"
    /\ exitCode' = 139
    /\ fdOpen' = FdsWithout(Parent)
    /\ UNCHANGED <<stdout, outbuf>>

\* where a loop "for(int i = 0; i < num_procs; i++)" starts: in its body or past it
LoopEntry(body, after) == IF 0 < num_procs THEN body ELSE after

\* int fds[num_procs][2]; an array length that is not positive is undefined
\* behaviour: the process goes on with an empty array or is ended by a signal
DeclareFds ==
    /\ cpc = "declare_fds"
    /\ \/ /\ cpc' = LoopEntry("pipe", "calc_N")
          /\ UNCHANGED <<exitCode, fdOpen>>
       \/ /\ num_procs < 1
          /\ CoordCrash
    /\ UNCHANGED <<inputVars, coordLocals, pipes, workerVars, stdout, outbuf, sent,
                   added>>

\* pipe(fds[i])
Pipe ==
    /\ cpc = "pipe"
    /\ \E ok \in BOOLEAN :
         IF ok
         THEN /\ fdOpen' = fdOpen \cup {<<Parent, i, RD>>, <<Parent, i, WR>>}
              /\ cpc' = "fork"
              /\ UNCHANGED <<exitCode, stdout, outbuf>>
         ELSE CoordExit(1)
    /\ UNCHANGED <<inputVars, coordLocals, pipes, workerVars, sent, added>>

\* the descriptors a child forked now inherits: a copy of every open one
Inherited(w) == {<<w, fd[2], fd[3]>> : fd \in {g \in fdOpen : g[1] = Parent}}

\* one iteration too many
AfterForkOneMore(k) == IF k < num_procs THEN "pipe" ELSE "calc_N"

\* the distribution is left out after the last fork
AfterForkThenWait(k) == IF k + 1 < num_procs THEN "pipe" ELSE "print_waiting"

\* where the fork loop continues after iteration k
AfterFork(k) == IF k + 1 < num_procs THEN "pipe" ELSE "calc_N"

\* r = fork(), parent's side; the child starts at the call of child_handler
Fork ==
    /\ cpc = "fork"
    /\ \E ok \in BOOLEAN :
         IF ok
         THEN /\ fdOpen' = fdOpen \cup Inherited(i)
              /\ wpc' = [wpc EXCEPT ![i] = "read_start"]
              /\ outbuf' = [outbuf EXCEPT ![i] = outbuf[Parent]]
              /\ cpc' = AfterFork(i)
              /\ i' = i + 1
              /\ UNCHANGED <<exitCode, stdout>>
         ELSE /\ CoordExit(1)
              /\ UNCHANGED <<wpc, i>>
    /\ UNCHANGED <<inputVars, N, cur_start, total_correct, num_correct, pipes,
                   wstatus, wstart, wcount, wrote, sent, added>>

\* what (int) ceil((num_items / 1.0) / num_procs) can be: the quotient rounded
\* up; with num_procs = 0 the quotient is infinite or not a number and its
\* conversion to int is undefined
CeilValues ==
    IF num_procs > 0 THEN {CeilDiv(num_items, num_procs)}
    ELSE IF num_procs < 0 THEN {0 - (num_items \div (0 - num_procs))}
    ELSE GarbageVals

\* int N = ceil(...); int cur_start = 0;
CalcN ==
    /\ cpc = "calc_N"
    /\ N' \in CeilValues
    /\ cur_start' = 0
    /\ i' = 0
    /\ cpc' = LoopEntry("write_start", "print_waiting")
    /\ UNCHANGED <<inputVars, total_correct, num_correct, exitCode, pipes, fdOpen,
                   workerVars, outbuf, stdout, sent, added>>

\* N is never reduced to what is left
ClampNNever(n, remaining) == n

\* if((testing->num_items - cur_start) < N) N = testing->num_items - cur_start;
ClampN(n, remaining) == IF remaining < n THEN remaining ELSE n

Msg(by, val) == [by |-> by, val |-> val]

\* the clamp, then write(fds[i][1], &cur_start, sizeof(int))
WriteStart ==
    /\ cpc = "write_start"
    /\ N' = ClampN(N, num_items - cur_start)
    /\ \E ok \in BOOLEAN :
         IF ok
         THEN /\ pipes' = [pipes EXCEPT ![i] = Append(@, Msg(Parent, cur_start))]
              /\ sent' = [sent EXCEPT ![i] = Append(@, cur_start)]
              /\ cpc' = "write_N"
              /\ UNCHANGED <<exitCode, stdout, outbuf, fdOpen>>
         ELSE /\ CoordExit(1)
              /\ UNCHANGED <<pipes, sent>>
    /\ UNCHANGED <<inputVars, i, cur_start, total_correct, num_correct, workerVars,
                   added>>

\* write(fds[i][1], &N, sizeof(int))
WriteN ==
    /\ cpc = "write_N"
    /\ \E ok \in BOOLEAN :
         IF ok
         THEN /\ pipes' = [pipes EXCEPT ![i] = Append(@, Msg(Parent, N))]
              /\ sent' = [sent EXCEPT ![i] = Append(@, N)]
              /\ cpc' = "close_write"
              /\ UNCHANGED <<exitCode, stdout, outbuf, fdOpen>>
         ELSE /\ CoordExit(1)
              /\ UNCHANGED <<pipes, sent>>
    /\ UNCHANGED <<inputVars, coordLocals, workerVars, added>>

\* where the distribution loop continues after iteration k
AfterDistribute(k) == IF k + 1 < num_procs THEN "write_start" ELSE "print_waiting"

\* close(fds[i][1]); cur_start += N;
CloseWrite ==
    /\ cpc = "close_write"
    /\ \E ok \in BOOLEAN :
         IF ok
         THEN /\ fdOpen' = fdOpen \ {<<Parent, i, WR>>}
              /\ cur_start' = cur_start + N
              /\ cpc' = AfterDistribute(i)
              /\ i' = i + 1
              /\ UNCHANGED <<exitCode, stdout, outbuf>>
         ELSE /\ CoordExit(1)
              /\ UNCHANGED <<cur_start, i>>
    /\ UNCHANGED <<inputVars, N, total_correct, num_correct, pipes, workerVars,
                   sent, added>>

\* if(verbose) printf("- Waiting for children...\n");
PrintWaiting ==
    /\ cpc = "print_waiting"
    /\ IF verbose THEN Printf(Item("waiting", 0))
                  ELSE UNCHANGED <<stdout, outbuf>>
    /\ cpc' = LoopEntry("wait", "print_num_correct")
    /\ i' = 0
    /\ UNCHANGED <<inputVars, N, cur_start, total_correct, num_correct, exitCode,
                   pipes, fdOpen, workerVars, sent, added>>


\* a single wait() instead of one per child
AfterWaitOnce(k) == "read"

\* where the wait loop continues after iteration k
AfterWait(k) == IF k + 1 < num_procs THEN "wait" ELSE "read"

\* wait(&status): returns once some child has terminated; status is not looked at
Wait ==
    /\ cpc = "wait"
    /\ \E ok \in BOOLEAN :
         IF ok
         THEN /\ \E w \in Procs :
                   /\ wpc[w] = "zombie"
                   /\ wpc' = [wpc EXCEPT ![w] = "reaped"]
              /\ cpc' = AfterWait(i)
              /\ i' = IF i + 1 < num_procs THEN i + 1 ELSE 0
              /\ UNCHANGED <<exitCode, stdout, outbuf, fdOpen>>
         ELSE /\ CoordExit(1)
              /\ UNCHANGED <<wpc, i>>
    /\ UNCHANGED <<inputVars, N, cur_start, total_correct, num_correct, pipes,
                   wstatus, wstart, wcount, wrote, sent, added>>

\* some process still holds the write end of pipe p
HasWriter(p) == \E fd \in fdOpen : fd[2] = p /\ fd[3] = WR

\* num_correct after read(fds[i][0], &num_correct, sizeof(int)) returned >= 0:
\* the next int of the pipe, or, at end of file, whatever it held before
ReadInto(old, pipe) ==
    IF pipe # <<>>
    THEN [init |-> TRUE, val |-> Head(pipe).val, src |-> Head(pipe).by]
    ELSE [old EXCEPT !.src = IF old.init THEN StaleSrc ELSE UninitSrc]

\* the total is overwritten by the last result instead of increased
AddResultOverwrite(total, v) == v

\* total_correct += num_correct
AddResult(total, v) == total + v

\* read(fds[i][0], &num_correct, sizeof(int)); total_correct += num_correct;
ReadResult ==
    /\ cpc = "read"
    /\ \E ok \in BOOLEAN :
         IF ok
         THEN /\ pipes[i] # <<>> \/ ~HasWriter(i)
              /\ num_correct' = ReadInto(num_correct, pipes[i])
              /\ pipes' = [pipes EXCEPT ![i] = IF @ # <<>> THEN Tail(@) ELSE @]
              /\ \E v \in (IF num_correct'.init THEN {num_correct'.val}
                                                ELSE GarbageVals) :
                   /\ total_correct' = AddResult(total_correct, v)
                   /\ added' = Append(added, [val |-> v, src |-> num_correct'.src])
              /\ cpc' = "close_read"
              /\ UNCHANGED <<exitCode, stdout, outbuf, fdOpen>>
         ELSE /\ CoordExit(1)
              /\ UNCHANGED <<num_correct, pipes, total_correct, added>>
    /\ UNCHANGED <<inputVars, i, N, cur_start, workerVars, sent>>

\* the collection stops after the first result
AfterReadFirstOnly(k) == "print_num_correct"

\* where the collection loop continues after iteration k
AfterRead(k) == IF k + 1 < num_procs THEN "read" ELSE "print_num_correct"

\* close(fds[i][0])
CloseRead ==
    /\ cpc = "close_read"
    /\ \E ok \in BOOLEAN :
         IF ok
         THEN /\ fdOpen' = fdOpen \ {<<Parent, i, RD>>}
              /\ cpc' = AfterRead(i)
              /\ i' = i + 1
              /\ UNCHANGED <<exitCode, stdout, outbuf>>
         ELSE /\ CoordExit(1)
              /\ UNCHANGED i
    /\ UNCHANGED <<inputVars, N, cur_start, total_correct, num_correct, pipes,
                   workerVars, sent, added>>

\* if(verbose) printf("Number of correct predictions: %d\n", total_correct);
PrintNumCorrect ==
    /\ cpc = "print_num_correct"
    /\ IF verbose THEN Printf(Item("num_correct", total_correct))
                  ELSE UNCHANGED <<stdout, outbuf>>
    /\ cpc' = "print_total"
    /\ UNCHANGED <<inputVars, coordLocals, exitCode, pipes, fdOpen, workerVars,
                   sent, added>>

\* printf("%d\n", total_correct);
PrintTotal ==
    /\ cpc = "print_total"
    /\ Printf(Item("total", total_correct))
    /\ cpc' = "return"
    /\ UNCHANGED <<inputVars, coordLocals, exitCode, pipes, fdOpen, workerVars,
                   sent, added>>

\* free(training); free(testing); return 0;
Return ==
    /\ cpc = "return"
    /\ CoordExit(0)
    /\ UNCHANGED <<inputVars, coordLocals, pipes, workerVars, sent, added>>


\* ---------------------------------------------------------------- children
Running(w) == wpc[w] \in {"read_start", "read_count", "write_result",
                          "close_in", "close_out"}

\* exit(code) in child w: stdio is flushed, every descriptor is closed
ChildExit(w, code) ==
    /\ wpc' = [wpc EXCEPT ![w] = "zombie"]
    /\ wstatus' = [wstatus EXCEPT ![w] = IF code = 0 THEN "exit0" ELSE "exit1"]
    /\ fdOpen' = FdsWithout(w)
    /\ stdout' = stdout \o outbuf[w]
    /\ outbuf' = [outbuf EXCEPT ![w] = <<>>]

\* child_handler: read start_idx from p_in (blocks until it is there)
HandlerReadStart(w) ==
    /\ wpc[w] = "read_start"
    /\ pipes[w] # <<>>
    /\ wstart' = [wstart EXCEPT ![w] = Head(pipes[w]).val]
    /\ pipes' = [pipes EXCEPT ![w] = Tail(@)]
    /\ wpc' = [wpc EXCEPT ![w] = "read_count"]
    /\ UNCHANGED <<inputVars, cpc, coordLocals, exitCode, fdOpen, wstatus, wcount,
                   wrote, outbuf, stdout, sent, added>>

\* child_handler: read N from p_in
HandlerReadCount(w) ==
    /\ wpc[w] = "read_count"
    /\ pipes[w] # <<>>
    /\ wcount' = [wcount EXCEPT ![w] = Head(pipes[w]).val]
    /\ pipes' = [pipes EXCEPT ![w] = Tail(@)]
    /\ wpc' = [wpc EXCEPT ![w] = "write_result"]
    /\ UNCHANGED <<inputVars, cpc, coordLocals, exitCode, fdOpen, wstatus, wstart,
                   wrote, outbuf, stdout, sent, added>>

\* child_handler: classify the slice and write the number of correct ones to p_out
HandlerWriteResult(w) ==
    /\ wpc[w] = "write_result"
    /\ pipes' = [pipes EXCEPT ![w] = Append(@, Msg(w, CountCorrect(wstart[w], wcount[w])))]
    /\ wrote' = [wrote EXCEPT ![w] = Append(@, CountCorrect(wstart[w], wcount[w]))]
    /\ wpc' = [wpc EXCEPT ![w] = "close_in"]
    /\ UNCHANGED <<inputVars, cpc, coordLocals, exitCode, fdOpen, wstatus, wstart,
                   wcount, outbuf, stdout, sent, added>>

\* if(close(fds[i][0]) != 0){ perror(...); exit(1); }
ChildCloseRead(w) ==
    /\ wpc[w] = "close_in"
    /\ \E ok \in BOOLEAN :
         IF ok
         THEN /\ fdOpen' = fdOpen \ {<<w, w, RD>>}
              /\ wpc' = [wpc EXCEPT ![w] = "close_out"]
              /\ UNCHANGED <<wstatus, stdout, outbuf>>
         ELSE ChildExit(w, 1)
    /\ UNCHANGED <<inputVars, cpc, coordLocals, exitCode, pipes, wstart, wcount,
                   wrote, sent, added>>

\* if(close(fds[i][1]) != 0){ perror(...); exit(1); } free(...); exit(0);
ChildCloseWrite(w) ==
    /\ wpc[w] = "close_out"
    /\ \E ok \in BOOLEAN : ChildExit(w, IF ok THEN 0 ELSE 1)
    /\ UNCHANGED <<inputVars, cpc, coordLocals, exitCode, pipes, wstart, wcount,
                   wrote, sent, added>>

\* a signal ends child w wherever it is: nothing is flushed, descriptors close
ChildKilled(w) ==
    /\ Running(w)
    /\ wpc' = [wpc EXCEPT ![w] = "zombie"]
    /\ wstatus' = [wstatus EXCEPT ![w] = "signaled"]
    /\ fdOpen' = FdsWithout(w)
    /\ UNCHANGED <<inputVars, cpc, coordLocals, exitCode, pipes, wstart, wcount,
                   wrote, outbuf, stdout, sent, added>>

\* ------------------------------------------------ command line and loading
runVars == <<coordLocals, pipes, workerVars, sent, added>>

\* while((opt = getopt(argc, argv, "vK:d:p:")) != -1) switch(opt) ...
Getopt ==
    /\ cpc = "getopt"
    /\ IF badOption
       THEN /\ CoordExit(1)
            /\ UNCHANGED <<verbose, K, dist_metric, num_procs>>
       ELSE /\ verbose' = argV
            /\ K' = IF argK = NoArg THEN K ELSE Atoi(argK)
            /\ dist_metric' = IF argD = NoArg THEN dist_metric ELSE argD
            /\ num_procs' = IF argP = NoArg THEN num_procs ELSE Atoi(argP)
            /\ cpc' = "check_args"
            /\ UNCHANGED <<exitCode, stdout, outbuf, fdOpen>>
    /\ UNCHANGED <<lineBuffered, num_items, correctSet, argvVars, d_func, num_train,
                   dimMatch, loaded, runVars>>

\* optind >= argc: no argument is left after the options
NoOperand(n) == n = 0

\* if(optind >= argc) { fprintf(stderr, ...); exit(1); }
CheckArgs ==
    /\ cpc = "check_args"
    /\ IF NoOperand(nPositional)
       THEN CoordExit(1)
       ELSE /\ cpc' = "select_metric"
            /\ UNCHANGED <<exitCode, stdout, outbuf, fdOpen>>
    /\ UNCHANGED <<inputVars, runVars>>

\* the if / else if / else over strncmp(dist_metric, name, strlen(dist_metric))
MetricFor(name) ==
    IF StrncmpIsZero(name, Euclidean, Strlen(name)) THEN "distance_euclidean"
    ELSE IF StrncmpIsZero(name, Cosine, Strlen(name)) THEN "distance_cosine"
    ELSE "none"

\* d_func = ...; or perror("Invalid distance metric"); exit(1);
SelectMetric ==
    /\ cpc = "select_metric"
    /\ IF MetricFor(dist_metric) # "none"
       THEN /\ d_func' = MetricFor(dist_metric)
            /\ cpc' = "load_training"
            /\ UNCHANGED <<exitCode, stdout, outbuf, fdOpen>>
       ELSE /\ CoordExit(1)
            /\ UNCHANGED d_func
    /\ UNCHANGED <<verbose, lineBuffered, num_procs, num_items, correctSet, argvVars,
                   K, dist_metric, num_train, dimMatch, loaded, runVars>>

\* a NULL training set is not noticed
AfterLoadTrainingUnchecked(ok) == "load_testing"

\* where main goes on after load_dataset(training_file) returned
AfterLoadTraining(ok) == IF ok THEN "load_testing" ELSE "exit"

\* training = load_dataset(training_file); if(training == NULL) exit(1);
LoadTraining ==
    /\ cpc = "load_training"
    /\ \E ok \in BOOLEAN :
         /\ loaded' = Append(loaded, Load("training", IF ok THEN "ok" ELSE "null"))
         /\ IF AfterLoadTraining(ok) = "exit"
            THEN /\ CoordExit(1)
                 /\ UNCHANGED num_train
            ELSE /\ num_train' \in (IF ok THEN 1 .. MaxTrain ELSE {num_train})
                 /\ cpc' = AfterLoadTraining(ok)
                 /\ UNCHANGED <<exitCode, stdout, outbuf, fdOpen>>
    /\ UNCHANGED <<verbose, lineBuffered, num_procs, num_items, correctSet, argvVars,
                   K, dist_metric, d_func, dimMatch, runVars>>

\* testing = load_dataset(testing_file); if(testing == NULL) exit(1);
\* with one operand testing_file is argv[argc], a null pointer: load_dataset
\* cannot open it, and returns NULL or ends the process with a signal
LoadTesting ==
    /\ cpc = "load_testing"
    /\ \/ /\ nPositional >= 2
          /\ \E ok \in BOOLEAN :
               IF ok
               THEN /\ loaded' = Append(loaded, Load("testing", "ok"))
                    /\ num_items' \in 0 .. MaxCfgTest
                    /\ correctSet' \in SUBSET (0 .. (num_items' - 1))
                    /\ dimMatch' \in BOOLEAN
                    /\ cpc' = "print_creating"
                    /\ UNCHANGED <<exitCode, stdout, outbuf, fdOpen>>
               ELSE /\ loaded' = Append(loaded, Load("testing", "null"))
                    /\ CoordExit(1)
                    /\ UNCHANGED <<num_items, correctSet, dimMatch>>
       \/ /\ nPositional < 2
          /\ \/ loaded' = Append(loaded, Load("testing", "null")) /\ CoordExit(1)
             \/ loaded' = Append(loaded, Load("testing", "crash")) /\ CoordCrash
          /\ UNCHANGED <<num_items, correctSet, dimMatch>>
    /\ UNCHANGED <<verbose, lineBuffered, num_procs, argvVars, K, dist_metric,
                   d_func, num_train, runVars>>

Child(w) ==
    \/ HandlerReadStart(w)
    \/ HandlerReadCount(w)
    \/ HandlerWriteResult(w)
    \/ ChildCloseRead(w)
    \/ ChildCloseWrite(w)
    \/ ChildKilled(w)

Coordinator ==
    \/ PrintCreating
    \/ DeclareFds
    \/ Pipe
    \/ Fork
    \/ CalcN
    \/ WriteStart
    \/ WriteN
    \/ CloseWrite
    \/ PrintWaiting
    \/ Wait
    \/ ReadResult
    \/ CloseRead
    \/ PrintNumCorrect
    \/ PrintTotal
    \/ Return

Next == Coordinator \/ \E w \in Procs : Child(w)

Spec == Init /\ [][Next]_vars

\* ------------------------------------------------ runs in which nothing fails
\* no call of the Coordinator has failed and no child was killed or exited 1
NoFailure ==
    /\ exitCode \in {-1, 0}
    /\ \A w \in Procs : wstatus[w] \in {"none", "exit0"}

FairCoordinator == Coordinator /\ NoFailure'
FairChild(w) == Child(w) /\ NoFailure'
FairNext == FairCoordinator \/ \E w \in Procs : FairChild(w)

\* every process that can take a step is scheduled again
SpecFair ==
    /\ Init
    /\ [][FairNext]_vars
    /\ WF_vars(FairCoordinator)
    /\ \A w \in Procs : WF_vars(FairChild(w))

\* ------------------------------------------- runs from the command line on
\* the texts tried after -K and -p, and the metric names tried after -d
KArgs == {NoArg, Numeral(0)} \cup {Numeral(k) : k \in 2 .. (MaxTrain + 1)}
PArgs == {NoArg, Numeral(0), <<"-", "1">>, <<"x">>}
             \cup {Numeral(k) : k \in 2 .. MaxCfgProcs}
Prefixes(s) == {SubSeq(s, 1, k) : k \in 0 .. Len(s)}
ConfigNames == {NoArg, <<>>, SubSeq(Euclidean, 1, 4), SubSeq(Cosine, 1, 3),
                Euclidean \o <<"x">>}
MetricNames == {NoArg} \cup Prefixes(Euclidean) \cup Prefixes(Cosine)
                 \cup {Euclidean \o <<"x">>, Cosine \o <<"x">>, <<"x">>,
                       <<"e", "x">>, <<"c", "o", "n">>, <<"u">>}

\* main is entered: the locals hold their initialisers, argv is some command line
StartWith(dArgs) ==
    /\ argV \in BOOLEAN
    /\ argK \in KArgs
    /\ argD \in dArgs
    /\ argP \in PArgs
    /\ badOption \in BOOLEAN
    /\ nPositional \in 0 .. 2
    /\ lineBuffered \in BOOLEAN
    /\ verbose = FALSE
    /\ K = 1
    /\ dist_metric = Euclidean
    /\ num_procs = 1
    /\ d_func = "none"
    /\ num_train = 0
    /\ num_items = 0
    /\ correctSet = {}
    /\ dimMatch = TRUE
    /\ loaded = <<>>
    /\ cpc = "getopt"
    /\ i = 0
    /\ N = 0
    /\ cur_start = 0
    /\ total_correct = 0
    /\ num_correct = [init |-> FALSE, val |-> 0, src |-> UninitSrc]
    /\ exitCode = -1
    /\ pipes = [p \in Procs |-> <<>>]
    /\ fdOpen = {}
    /\ wpc = [w \in Procs |-> "unborn"]
    /\ wstatus = [w \in Procs |-> "none"]
    /\ wstart = [w \in Procs |-> 0]
    /\ wcount = [w \in Procs |-> 0]
    /\ outbuf = [q \in AllProcs |-> <<>>]
    /\ stdout = <<>>
    /\ sent = [w \in Procs |-> <<>>]
    /\ wrote = [w \in Procs |-> <<>>]
    /\ added = <<>>

ConfigInit == StartWith(ConfigNames)

ConfigNext ==
    \/ Getopt
    \/ CheckArgs
    \/ SelectMetric
    \/ LoadTraining
    \/ LoadTesting
    \/ Next

SpecConfig == ConfigInit /\ [][ConfigNext]_vars

\* the metric selection on its own, for every prefix of the two names
MetricInit == StartWith(MetricNames)

MetricNext == Getopt \/ CheckArgs \/ SelectMetric

SpecMetric == MetricInit /\ [][MetricNext]_vars

\* The distribution loop on its own: the state main is in when the fork loop
\* has ended and no child has been scheduled yet, for larger P and test sets.
PartInit ==
    /\ verbose \in BOOLEAN
    /\ lineBuffered \in BOOLEAN
    /\ num_procs \in 1 .. MaxPartProcs
    /\ num_items \in 0 .. MaxPartTest
    /\ correctSet \in {{}, 0 .. (num_items - 1)}
    /\ cpc = "calc_N"
    /\ i = num_procs
    /\ N = 0
    /\ cur_start = 0
    /\ total_correct = 0
    /\ num_correct = [init |-> FALSE, val |-> 0, src |-> UninitSrc]
    /\ exitCode = -1
    /\ pipes = [p \in Procs |-> <<>>]
    /\ fdOpen = {fd \in AllProcs \X Procs \X {RD, WR} :
                    /\ fd[2] < num_procs
                    /\ fd[1] = Parent \/ (fd[1] < num_procs /\ fd[2] <= fd[1])}
    /\ wpc = [w \in Procs |-> IF w < num_procs THEN "read_start" ELSE "unborn"]
    /\ wstatus = [w \in Procs |-> "none"]
    /\ wstart = [w \in Procs |-> 0]
    /\ wcount = [w \in Procs |-> 0]
    /\ outbuf = [q \in AllProcs |->
                   IF verbose /\ ~lineBuffered /\ q < num_procs
                   THEN <<Item("creating", 0)>> ELSE <<>>]
    /\ stdout = IF verbose /\ lineBuffered THEN <<Item("creating", 0)>> ELSE <<>>
    /\ added = <<>>
    /\ sent = [w \in Procs |-> <<>>]
    /\ wrote = [w \in Procs |-> <<>>]
    /\ LoadedDefaults

PartNext == CalcN \/ WriteStart \/ WriteN \/ CloseWrite

SpecPartition == PartInit /\ [][PartNext]_vars

TypeOK ==
    /\ cpc \in {"getopt", "check_args", "select_metric", "load_training",
                "load_testing", "declare_fds",
                "print_creating", "pipe", "fork", "calc_N", "write_start", "write_N",
                "close_write", "print_waiting", "wait", "read", "close_read",
                "print_num_correct", "print_total", "return", "exited"}
    /\ exitCode \in {-1, 0, 1, 139}
    /\ \A w \in Procs : wpc[w] \in {"unborn", "read_start", "read_count",
                                    "write_result", "close_in", "close_out",
                                    "zombie", "reaped"}


\* ================================================================ claims
Workers == 0 .. (num_procs - 1)
Assigned(w) == Len(sent[w]) = 2
SliceStart(w) == sent[w][1]
SliceCount(w) == sent[w][2]
SliceSet(w) == SliceStart(w) .. (SliceStart(w) + SliceCount(w) - 1)
DistributionDone == \A w \in Workers : Assigned(w)

RECURSIVE SumCounts(_)
SumCounts(k) == IF k = 0 THEN 0 ELSE SliceCount(k - 1) + SumCounts(k - 1)

\* C1: the (start_index, count) pairs written to workers 0..P-1 are contiguous
\* half-open slices: slice 0 starts at 0, each slice starts where the previous
\* one ends, no count is negative, and once all P pairs are written the slices
\* are pairwise disjoint, their union is exactly 0..N_test-1 and the counts sum
\* to N_test.
PartitionComplete ==
    /\ \A w \in Workers : Assigned(w) =>
          /\ SliceCount(w) >= 0
          /\ IF w = 0 THEN SliceStart(w) = 0
             ELSE /\ Assigned(w - 1)
                  /\ SliceStart(w) = SliceStart(w - 1) + SliceCount(w - 1)
    /\ DistributionDone =>
          /\ UNION {SliceSet(w) : w \in Workers} = 0 .. (num_items - 1)
          /\ \A v, w \in Workers : v # w => SliceSet(v) \cap SliceSet(w) = {}
          /\ SumCounts(num_procs) = num_items

\* all of 4 workers have their pair, of a 5-item test set
PartitionCompleteWitness ==
    DistributionDone /\ num_procs = 4 /\ num_items = 5 /\ cpc = "print_waiting"

\* ceil(N_test / P), as the least c with c * P >= N_test
CeilOfRatio == CHOOSE c \in 0 .. num_items :
                   c * num_procs >= num_items /\ (c = 0 \/ (c - 1) * num_procs < num_items)
Short(w) == Assigned(w) /\ SliceCount(w) > 0 /\ SliceCount(w) < CeilOfRatio

\* C6: no count written exceeds ceil(N_test / P); at most one slice is short
\* (non-empty but smaller than ceil(N_test / P)) and every slice before it has
\* exactly ceil(N_test / P) items; N_test = 5 with P = 2 gives sizes 3 then 2.
PartitionFair ==
    /\ \A w \in Workers : Assigned(w) => SliceCount(w) <= CeilOfRatio
    /\ Cardinality({w \in Workers : Short(w)}) <= 1
    /\ \A w \in Workers : Short(w) =>
          \A v \in 0 .. (w - 1) : SliceCount(v) = CeilOfRatio
    /\ (DistributionDone /\ num_items = 5 /\ num_procs = 2) =>
          (SliceCount(0) = 3 /\ SliceCount(1) = 2)

\* a short slice in the middle: 7 items over 4 workers are 2, 2, 2, 1
PartitionFairWitness ==
    DistributionDone /\ num_items = 7 /\ num_procs = 4 /\ Short(3)

Reported(w) == wrote[w] # <<>>
PastDistribution == cpc \in {"print_waiting", "wait", "read", "close_read",
                             "print_num_correct", "print_total", "return"}
                    \/ (cpc = "exited" /\ exitCode = 0)

\* C7: with P >= N_test every worker is sent exactly one assignment (two ints,
\* never more), each with start_index >= 0, count >= 0 and start_index + count
\* <= N_test; the workers beyond the test set get count 0; and on a run that
\* ends with status 0 an empty slice whose worker reported adds 0 to the total.
SurplusWorkers ==
    num_procs >= num_items =>
      /\ \A w \in Workers : Len(sent[w]) <= 2
      /\ PastDistribution => DistributionDone
      /\ \A w \in Workers : Assigned(w) =>
            /\ SliceStart(w) >= 0
            /\ SliceCount(w) >= 0
            /\ SliceStart(w) + SliceCount(w) <= num_items
            /\ w >= num_items => SliceCount(w) = 0
      /\ \A w \in Workers :
            (exitCode = 0 /\ SliceCount(w) = 0 /\ Reported(w)) =>
                added[w + 1] = [val |-> 0, src |-> w]

\* two workers for one item, both reported, the run ended with status 0
SurplusWorkersWitness ==
    /\ num_procs = 2 /\ num_items = 1 /\ exitCode = 0
    /\ \A w \in Workers : Reported(w)
    /\ SliceCount(1) = 0


Terminated(w) == wpc[w] \in {"zombie", "reaped"}

\* the lines printf has been given for stdout by the Coordinator
Printed == stdout \o outbuf[Parent]
PrintedTotals == SelectSeq(Printed, LAMBDA it : it.kind = "total")
TotalPrinted == PrintedTotals # <<>>

\* C2: when a worker ended without having written its result, the Coordinator
\* ends with a non-zero status and has printed no total.
MissingResultIsFatal ==
    (cpc = "exited" /\ \E w \in Workers : Terminated(w) /\ ~Reported(w)) =>
        (exitCode # 0 /\ ~TotalPrinted)

\* C3: every value added to total_correct for worker i is an integer that
\* worker i itself wrote to channel i: not a value left from an earlier read,
\* not an unassigned one, not an integer the Coordinator wrote.
OnlyReceivedResultsAdded ==
    \A k \in 1 .. Len(added) :
        /\ added[k].src = k - 1
        /\ wrote[k - 1] # <<>>
        /\ added[k].val = wrote[k - 1][1]

RECURSIVE SumWrote(_)
SumWrote(k) == IF k = 0 THEN 0 ELSE wrote[k - 1][1] + SumWrote(k - 1)

\* C4: when every worker reported, the total printed is the sum of the counts
\* the P workers wrote, and it is the same on every interleaving: the number
\* of correctly classified test items, which the inputs alone determine.
AggregationCorrect ==
    (TotalPrinted /\ \A w \in Workers : Reported(w)) =>
        /\ Len(PrintedTotals) = 1
        /\ PrintedTotals[1].val = SumWrote(num_procs)
        /\ PrintedTotals[1].val = Cardinality(correctSet)

\* two workers, three items of which two are classified correctly, total printed
AggregationCorrectWitness ==
    /\ TotalPrinted /\ num_procs = 2 /\ num_items = 3 /\ Cardinality(correctSet) = 2
    /\ \A w \in Workers : Reported(w) /\ wrote[w][1] = 1

\* C5: the total is printed only when each of the P workers has terminated
\* (and been waited for) and the result of each has been read.
NoEarlyOutput ==
    (TotalPrinted \/ cpc \in {"print_num_correct", "print_total"}) =>
        /\ \A w \in Workers : wpc[w] = "reaped"
        /\ Len(added) = num_procs

\* the total has been printed for two workers
NoEarlyOutputWitness == TotalPrinted /\ num_procs = 2 /\ cpc = "return"

\* C8: on a run that ends with status 0, stdout holds exactly one item, the
\* total, with or without -v.
StdoutOnlyTotal ==
    (cpc = "exited" /\ exitCode = 0) => stdout = <<Item("total", total_correct)>>

\* C9: when a child was killed by a signal or exited with a non-zero status,
\* the Coordinator does not end with status 0 and prints no total.
AbnormalWorkerIsFatal ==
    (cpc = "exited" /\ \E w \in Workers : wstatus[w] \in {"exit1", "signaled"}) =>
        (exitCode # 0 /\ ~TotalPrinted)

\* the Coordinator ended because pipe() or fork() failed
ResourceFailure ==
    cpc = "exited" /\ exitCode = 1 /\ wpc[num_procs - 1] = "unborn"

\* C10: when pipe() or fork() failed, the Coordinator has gone only after the
\* children it had forked ended and the pipes it had opened are closed in
\* every process, so no child is left behind waiting for an assignment.
ResourceFailureCleansUp ==
    ResourceFailure =>
        /\ \A w \in Workers : ~Running(w)
        /\ fdOpen = {}


\* the metric selection has been passed
PastSelect == cpc # "getopt" /\ cpc # "check_args" /\ cpc # "select_metric"
                  /\ ~badOption /\ nPositional > 0
NoWorkerYet == fdOpen = {} /\ \A w \in Procs : wpc[w] = "unborn"

\* C11: once the metric is selected, a name that is a non-empty prefix of
\* "euclidean" (the whole word included) has selected distance_euclidean, a
\* non-empty prefix of "cosine" has selected distance_cosine, and so has
\* distance_euclidean been when there is no -d; none of them ended the run.
MetricByPrefix ==
    PastSelect =>
        /\ dist_metric \in (Prefixes(Euclidean) \ {<<>>}) =>
              (d_func = "distance_euclidean" /\ cpc = "load_training")
        /\ dist_metric \in (Prefixes(Cosine) \ {<<>>}) =>
              (d_func = "distance_cosine" /\ cpc = "load_training")
        /\ argD = NoArg => (d_func = "distance_euclidean" /\ cpc = "load_training")

\* -d c selected the cosine distance
MetricByPrefixWitness ==
    cpc = "load_training" /\ argD = <<"c">> /\ d_func = "distance_cosine"

\* the known metric names a name is a prefix of
MatchedNames(name) == {m \in {Euclidean, Cosine} : name \in Prefixes(m)}

\* C12: a name that is a prefix of no known metric name, or of more than one
\* (the empty string), ends the run with status 1 with no metric selected, no
\* dataset loaded and no worker spawned.
InvalidMetricIsFatal ==
    (PastSelect /\ Cardinality(MatchedNames(dist_metric)) # 1) =>
        /\ cpc = "exited" /\ exitCode = 1
        /\ d_func = "none"
        /\ loaded = <<>>
        /\ NoWorkerYet

\* C13: with K < 1, K larger than the training set or datasets of different
\* feature dimension, no pipe is created and no worker forked.
BadEngineConfig ==
    /\ Len(loaded) = 2 /\ loaded[2].result = "ok"
    /\ K < 1 \/ K > num_train \/ ~dimMatch
EngineConfigCheckedBeforeFork == BadEngineConfig => NoWorkerYet

\* C14: with fewer than two operands after the options load_dataset is never
\* called, no worker is spawned and the run ends with a non-zero status.
MissingOperandIsFatal ==
    (nPositional < 2 /\ ~badOption) =>
        /\ loaded = <<>>
        /\ NoWorkerYet
        /\ cpc = "exited" => exitCode # 0

\* C15: a -p value below 1 ends the run with a non-zero status before any
\* dataset is loaded; no total is printed for a run without workers.
WorkerCountAtLeastOne ==
    (num_procs < 1) =>
        /\ loaded = <<>>
        /\ ~TotalPrinted
        /\ cpc = "exited" => exitCode # 0

\* C16: once load_dataset has returned NULL, for the training or the testing
\* file, the program has ended with status 1 and no pipe was created and no
\* worker forked.
LoadErrorIsFatal ==
    (\E k \in 1 .. Len(loaded) : loaded[k].result = "null") =>
        /\ cpc = "exited" /\ exitCode = 1
        /\ NoWorkerYet
        /\ \A w \in Procs : sent[w] = <<>>

\* the testing file could not be loaded after the training file was
LoadErrorIsFatalWitness ==
    /\ nPositional = 2 /\ Len(loaded) = 2
    /\ loaded[1].result = "ok" /\ loaded[2].result = "null"
    /\ cpc = "exited"


\* child w waits in read() for an int that is not in its pipe yet
Blocked(w) == wpc[w] \in {"read_start", "read_count"} /\ pipes[w] = <<>>
FinishedOK == cpc = "exited" /\ exitCode = 0 /\ TotalPrinted

\* C17: when no call fails and no child dies early, under fair scheduling the
\* Coordinator eventually prints the total and exits 0; a child only ever
\* waits for its own assignment, which the Coordinator has then not finished
\* writing, and while the Coordinator waits for exits or reads results no
\* child is waiting for it.
DeadlockFree ==
    /\ [](\A w \in Workers : Blocked(w) => ~Assigned(w))
    /\ [](cpc \in {"wait", "read", "close_read"} => \A w \in Workers : ~Blocked(w))
    /\ <>FinishedOK

\* a run with two workers has ended with status 0 and the total on stdout
DeadlockFreeWitness ==
    FinishedOK /\ num_procs = 2 /\ \A w \in Workers : wstatus[w] = "exit0"


ParentFds == {fd \in fdOpen : fd[1] = Parent}
\* main has returned 0, or is about to, and every child exited with status 0
SuccessfulRun ==
    /\ cpc = "return" \/ (cpc = "exited" /\ exitCode = 0)
    /\ \A w \in Workers : wstatus[w] = "exit0"

\* C18: on a successful run channel i carried exactly the two ints of the
\* Coordinator, start_index then count as worker i received them, and the one
\* result of worker i, which is what the Coordinator read and added; nothing
\* is left in the channel and the Coordinator holds no end of any channel.
\* The Coordinator has closed its write ends before it reads.
ChannelProtocol ==
    /\ SuccessfulRun =>
          /\ Len(added) = num_procs
          /\ ParentFds = {}
          /\ \A w \in Workers :
                /\ Len(sent[w]) = 2
                /\ wstart[w] = sent[w][1] /\ wcount[w] = sent[w][2]
                /\ Len(wrote[w]) = 1
                /\ added[w + 1] = [val |-> wrote[w][1], src |-> w]
                /\ pipes[w] = <<>>
    /\ cpc \in {"read", "close_read"} => \A fd \in ParentFds : fd[3] = RD

\* a successful run of two workers over three items is about to return
ChannelProtocolWitness ==
    SuccessfulRun /\ cpc = "return" /\ num_procs = 2 /\ num_items = 3

\* C19: the only processes holding an end of channel i are the Coordinator
\* and worker i.
PointToPoint == \A fd \in fdOpen : fd[1] = Parent \/ fd[1] = fd[2]

Born == {w \in Procs : wpc[w] # "unborn"}
PastForkLoop == cpc \in {"calc_N", "write_start", "write_N", "close_write",
                         "print_waiting", "wait", "read", "close_read",
                         "print_num_correct", "print_total", "return"}

\* C20: only workers 0..P-1 are ever forked, all P of them once the fork loop
\* has ended, so at most P + 1 processes exist; a child writes at most one int,
\* its result, and only to its own pipe; every int of an assignment is the
\* Coordinator's; a child that has ended did so by exit(0), exit(1) or a
\* signal; and no total is printed before the Coordinator is at its return.
ExactlyPWorkers ==
    /\ Born \subseteq Workers
    /\ Cardinality(Born) + 1 <= num_procs + 1
    /\ PastForkLoop => Born = Workers
    /\ \A w \in Procs :
          /\ Len(wrote[w]) <= 1
          /\ \A k \in 1 .. Len(pipes[w]) : pipes[w][k].by \in {Parent, w}
          /\ Terminated(w) <=> wstatus[w] \in {"exit0", "exit1", "signaled"}
    /\ TotalPrinted => (cpc \in {"return", "exited"} /\ Len(PrintedTotals) = 1)

\* both children of a two-worker run have been waited for, one of them
\* having ended with exit(1)
ExactlyPWorkersWitness ==
    /\ num_procs = 2 /\ cpc = "read"
    /\ wpc[0] = "reaped" /\ wpc[1] = "reaped"
    /\ wstatus[0] = "exit1" /\ wstatus[1] = "exit0"

====
